---- MODULE Spec2Model ----
(***************************************************************************)
(* Model of the incidents API of human-rights-first-be-a:                  *)
(*   - GET /showallincidents (the in-memory join of incidents, types of    *)
(*     force, their links and sources),                                    *)
(*   - processSources (the citation URL classifier),                       *)
(*   - POST /createincidents behind the validateIncidents middleware,      *)
(*   - createSource (the bulk insert of source rows).                      *)
(* Strings that the code takes apart are sequences of one-character        *)
(* strings, so that split, length and equality act on characters.          *)
(***************************************************************************)
EXTENDS Integers, Sequences, FiniteSets, TLC

VARIABLES
    \* GET /showallincidents
    dbIncidents,    \* rows of table incidents, as getAllIncidents returns them
    dbSources,      \* rows of table sources
    dbTags,         \* rows of table type_of_force
    dbTagTypes,     \* rows of table incident_type_of_force
    incidents,      \* the handler's array `incidents` (objects it holds)
    sources,        \* the handler's array `sources`
    tofTypes,       \* the handler's array `tofTypes`
    typeLinks,      \* the handler's array `typeLinks`
    responseArray,  \* what res.json was given
    aggStatus,      \* 0: no response yet, 200, 500
    \* processSources
    clsSources,     \* the argument `sources`: a list of strings
    globalObject,   \* the properties the code has put on the global object:
                    \* name -> reference of the array it holds
    clsHeap,        \* reference -> the array's elements
    clsReturn,      \* the reference the call returned ("none" before)
    clsPc,          \* "ready", "returned"
    \* POST /createincidents
    postBody,       \* request -> req.body, a list of incidents
    postPc,         \* request -> "none", "sent", "middleware_returned"
    postValid,      \* request -> what validateIncidents returned ("unset" before)
    postStatus,     \* request -> 0: no response, 201, 500
    \* createSource
    csSources,      \* the argument `sources`
    csIncidentID,   \* the argument `incidentID`
    csPc,           \* "ready", "awaiting", "resolved"
    csPending,      \* indexes of `sources` whose insert is issued and not settled
    sourcesTable    \* rows inserted into table sources, in insertion order

aggVars == <<dbIncidents, dbSources, dbTags, dbTagTypes, incidents, sources,
             tofTypes, typeLinks, responseArray, aggStatus>>

clsVars == <<clsSources, globalObject, clsHeap, clsReturn, clsPc>>

postVars == <<postBody, postPc, postValid, postStatus>>

csVars == <<csSources, csIncidentID, csPc, csPending, sourcesTable>>

vars == <<aggVars, clsVars, postVars, csVars>>

----------------------------------------------------------------------------
\* The number of POST /createincidents requests.
MaxRequests == 2

Requests == 1..MaxRequests

\* The states in which a part of the program has not been used.
AggIdle ==
    /\ dbIncidents = <<>>
    /\ dbSources = <<>>
    /\ dbTags = <<>>
    /\ dbTagTypes = <<>>
    /\ incidents = <<>>
    /\ sources = <<>>
    /\ tofTypes = <<>>
    /\ typeLinks = <<>>
    /\ responseArray = <<>>
    /\ aggStatus = 0

ClsIdle ==
    /\ clsSources = <<>>
    /\ globalObject = <<>>
    /\ clsHeap = <<>>
    /\ clsReturn = "none"
    /\ clsPc = "ready"

PostIdle ==
    /\ postBody = [r \in Requests |-> <<>>]
    /\ postPc = [r \in Requests |-> "none"]
    /\ postValid = [r \in Requests |-> "unset"]
    /\ postStatus = [r \in Requests |-> 0]

CsIdle ==
    /\ csSources = <<>>
    /\ csIncidentID = 1
    /\ csPc = "ready"
    /\ csPending = {}
    /\ sourcesTable = <<>>

----------------------------------------------------------------------------
\* Bounds of the aggregation's inputs.
MaxIncidentId == 2
MaxTofId == 2
\* The tag-link rows and the source rows are at most MaxRows together.
MaxRows == 2

Min(S) == CHOOSE x \in S : \A y \in S : x <= y

\* The sequences over S without repetition, of every length.
InjSeqs(S) ==
    UNION { { s \in [1..n -> S] : \A i, j \in 1..n : i # j => s[i] # s[j] }
            : n \in 0..Cardinality(S) }

SeqsUpTo(S, n) == UNION { [1..k -> S] : k \in 0..n }

Slug(k) == IF k = 1 THEN "wa-olympia-1" ELSE "wa-seattle-1"

Label(k) == IF k = 1 THEN "tear_gas" ELSE "projectile"

IncidentRows == { [incident_id |-> k, id |-> Slug(k)] : k \in 1..MaxIncidentId }

TagRows == { [type_of_force_id |-> k, type_of_force |-> Label(k)] : k \in 1..MaxTofId }

TagTypeRows == [type_of_force_id : 1..MaxTofId, incident_id : 1..MaxIncidentId]

\* src_id is the table's serial key: the n-th row of the table has src_id n.
SourceTables ==
    { [i \in 1..Len(s) |-> [src_id |-> i, incident_id |-> s[i],
                            src_url |-> "https://twitter.com/x", src_type |-> "post"]]
      : s \in SeqsUpTo(1..MaxIncidentId, MaxRows) }

TagTypeTables == SeqsUpTo(TagTypeRows, MaxRows)

----------------------------------------------------------------------------
\* Variant of AttachField: the assignment also overwrites the slug `id`.
AttachFieldClobbersId(obj, key, val) ==
    [f \in (DOMAIN obj) \cup {key} |-> IF f \in {key, "id"} THEN val ELSE obj[f]]

\* obj[key] = val on a JavaScript object: the key is added or overwritten,
\* every other own property is kept.
AttachField(obj, key, val) ==
    [f \in (DOMAIN obj) \cup {key} |-> IF f = key THEN val ELSE obj[f]]

\* Concatenation of the sequences of a sequence of sequences.
RECURSIVE Flatten(_)
Flatten(ss) == IF ss = <<>> THEN <<>> ELSE Head(ss) \o Flatten(Tail(ss))

\* Variant of TagsArray: the two loops exchanged (connections outside).
TagsArrayLinksOutside(tofs, links) ==
    Flatten([l \in 1..Len(links) |->
        LET matching == SelectSeq(tofs,
                LAMBDA tof : links[l].type_of_force_id = tof.type_of_force_id)
        IN [k \in 1..Len(matching) |->
                AttachField(matching[k], "incident_id", links[l].incident_id)]])

\* tagsArray: for every tof (outer loop), for every connection (inner loop)
\* with the same type_of_force_id, { ...tof, incident_id: connection.incident_id }.
TagsArray(tofs, links) ==
    Flatten([d \in 1..Len(tofs) |->
        LET matching == SelectSeq(links,
                LAMBDA c : c.type_of_force_id = tofs[d].type_of_force_id)
        IN [k \in 1..Len(matching) |->
                AttachField(tofs[d], "incident_id", matching[k].incident_id)]])

\* Variant of Categories: the tag's type_of_force_id is compared instead of
\* its incident_id.
CategoriesByTofId(incident, tagsArray) ==
    LET mine == SelectSeq(tagsArray,
                    LAMBDA tag : tag.type_of_force_id = incident.incident_id)
    IN [k \in 1..Len(mine) |-> mine[k].type_of_force]

\* incident.categories: type_of_force of every tag of tagsArray with the
\* incident's incident_id, in tagsArray order.
Categories(incident, tagsArray) ==
    LET mine == SelectSeq(tagsArray,
                    LAMBDA tag : tag.incident_id = incident.incident_id)
    IN [k \in 1..Len(mine) |-> mine[k].type_of_force]

\* Variant of SrcOf: the source's src_id is compared instead of its incident_id.
SrcOfBySrcId(incident, srcs) ==
    SelectSeq(srcs, LAMBDA source : source.src_id = incident.incident_id)

\* incident.src: every source with the incident's incident_id, in order.
SrcOf(incident, srcs) ==
    SelectSeq(srcs, LAMBDA source : source.incident_id = incident.incident_id)

\* router.get('/showallincidents'): the four fetches, the join, the response.
\* A rejected fetch is caught and answered with 500.
GetShowAllIncidents ==
    /\ aggStatus = 0
    /\ \E dbOk \in BOOLEAN :
        IF dbOk
        THEN LET tagsArray == TagsArray(dbTags, dbTagTypes)
                 withCats == [i \in 1..Len(dbIncidents) |->
                     AttachField(dbIncidents[i], "categories",
                                 Categories(dbIncidents[i], tagsArray))]
                 withSrc == [i \in 1..Len(withCats) |->
                     AttachField(withCats[i], "src", SrcOf(withCats[i], dbSources))]
             IN /\ incidents' = withSrc
                /\ sources' = dbSources
                /\ tofTypes' = dbTags
                /\ typeLinks' = dbTagTypes
                /\ responseArray' = withSrc
                /\ aggStatus' = 200
        ELSE /\ aggStatus' = 500
             /\ UNCHANGED <<incidents, sources, tofTypes, typeLinks, responseArray>>
    /\ UNCHANGED <<dbIncidents, dbSources, dbTags, dbTagTypes>>

----------------------------------------------------------------------------
\* processSources (middleware/index.js).

\* Bounds of the classifier's inputs: a list of at most MaxListLen strings
\* whose size is at most MaxFrags, the size of a list being the number of
\* fragments its strings are made of plus the number of strings after the
\* first one.
MaxListLen == 2
MaxFrags == 3

HttpsWww == <<"h", "t", "t", "p", "s", ":", "/", "/", "w", "w", "w", ".">>
Https == <<"h", "t", "t", "p", "s", ":", "/", "/">>
DotCom == <<".", "c", "o", "m">>
DotOrg == <<".", "o", "r", "g">>
Dot == <<".">>
YoutubeUrl == <<"h", "t", "t", "p", "s", ":", "/", "/", "w", "w", "w", ".", "y", "o", "u", "t", "u", "b", "e", ".", "c", "o", "m", "/">>
NlgLaUrl == <<"h", "t", "t", "p", "s", ":", "/", "/", "n", "l", "g", "-", "l", "a", ".", "o", "r", "g">>
Slash == <<"/">>
LetterI == <<"i">>
DriveGoogle == <<"d", "r", "i", "v", "e", ".", "g", "o", "o", "g", "l", "e">>
Twitter == <<"t", "w", "i", "t", "t", "e", "r">>

Fragments ==
    { HttpsWww, Https, YoutubeUrl, NlgLaUrl, Slash, LetterI, DotCom, DotOrg,
      DriveGoogle, Twitter }

\* The strings made of exactly n fragments.
RECURSIVE UrlsOf(_)
UrlsOf(n) ==
    IF n = 0 THEN { <<>> }
    ELSE { f \o u : f \in Fragments, u \in UrlsOf(n - 1) }

\* The lists of exactly k strings made of at most budget fragments together.
RECURSIVE ListsOf(_, _)
ListsOf(k, budget) ==
    IF k = 0 THEN { <<>> }
    ELSE UNION { { <<u>> \o rest : u \in UrlsOf(a), rest \in ListsOf(k - 1, budget - a) }
                 : a \in 0..budget }

InputLists ==
    { <<>> } \cup UNION { ListsOf(k, MaxFrags - (k - 1)) : k \in 1..MaxListLen }

\* The value of an array index that is out of range.
Undefined == <<"undefined">>

\* String.prototype.indexOf, 1-based; 0 when sep does not occur in s.
IndexOf(s, sep) ==
    LET at == { i \in 1..(Len(s) - Len(sep) + 1) : SubSeq(s, i, i + Len(sep) - 1) = sep }
    IN IF at = {} THEN 0 ELSE Min(at)

\* String.prototype.split with a non-empty string separator: the pieces
\* between the successive occurrences of sep, found from left to right.
RECURSIVE Split(_, _)
Split(s, sep) ==
    LET i == IndexOf(s, sep)
    IN IF i = 0 THEN << s >>
       ELSE << SubSeq(s, 1, i - 1) >> \o Split(SubSeq(s, i + Len(sep), Len(s)), sep)

\* arr[k], k counted from 0.
At(arr, k) == IF k < Len(arr) THEN arr[k + 1] ELSE Undefined

\* if (x): undefined and the empty string are falsy.
Truthy(x) == x # Undefined /\ x # <<>>

\* Variant of UrlToken: the first length gate is `> 12`.
UrlTokenGate12(source) ==
    LET comps == At(Split(source, HttpsWww), 1)
    IN IF Truthy(comps) THEN At(Split(comps, DotCom), 0)
       ELSE LET components == At(Split(source, Https), 1)
            IN IF components # Undefined
               THEN LET components2 == At(Split(components, DotCom), 0)
                    IN IF Len(components2) > 12
                       THEN LET comps3 == At(Split(components2, DotOrg), 0)
                            IN IF Len(comps3) > 10
                               THEN At(Split(comps3, Dot), 0)
                               ELSE comps3
                       ELSE components2
               ELSE <<>>

\* The variable `url` at the switch: the token cut out of the source.
UrlToken(source) ==
    LET comps == At(Split(source, HttpsWww), 1)
    IN IF Truthy(comps) THEN At(Split(comps, DotCom), 0)
       ELSE LET components == At(Split(source, Https), 1)
            IN IF components # Undefined
               THEN LET components2 == At(Split(components, DotCom), 0)
                    IN IF Len(components2) > 11
                       THEN LET comps3 == At(Split(components2, DotOrg), 0)
                            IN IF Len(comps3) > 10
                               THEN At(Split(comps3, Dot), 0)
                               ELSE comps3
                       ELSE components2
               ELSE <<>>

VideoKeys ==
    { <<"y", "o", "u", "t", "u", "b", "e">>,
      <<"w", "h", "y", "y">>,
      <<"y", "o", "u", "t", "u">>,
      <<"c", "l", "i", "p", "s">>,
      <<"t", "u", "c", "k", "b", "o", "t">>,
      <<"p", "e", "e", "r", "t", "u", "b", "e">>,
      <<"d", "r", "i", "v", "e">>,
      <<"m">>,
      <<"g", "e", "t", "w", "a", "y">> }

PostKeys ==
    { <<"i", "n", "s", "t", "a", "g", "r", "a", "m">>,
      <<"t", "w", "i", "t", "t", "e", "r">>,
      <<"r", "e", "d", "d", "i", "t">>,
      <<"p", "a", "p", "o", "s", "t">>,
      <<"m", "o", "b", "i", "l", "e">>,
      <<"n", "y", "c">>,
      <<"v">> }

CourtDocumentKeys ==
    { <<"n", "l", "g", "-", "l", "a">>,
      <<"e", "w", "s", "c", "r", "i", "p", "p", "s">> }

ImageKeys ==
    { <<"i">>,
      <<"i", "b", "b">>,
      <<"p", "h", "o", "t", "o", "s">> }

PoliceReportKeys ==
    { <<"d", "o", "v", "e", "r", "p", "o", "l", "i", "c", "e">>,
      <<"d", "s", "p">> }

\* Variant of SrcType: the case 'youtube' is missing.
SrcTypeWithoutYoutube(url) ==
    IF url \in VideoKeys \ { <<"y", "o", "u", "t", "u", "b", "e">> } THEN "video"
    ELSE IF url \in PostKeys THEN "post"
    ELSE IF url \in CourtDocumentKeys THEN "court_document"
    ELSE IF url \in ImageKeys THEN "image"
    ELSE IF url \in PoliceReportKeys THEN "police_report"
    ELSE "article"

\* switch (url): the src_type of a token.
SrcType(url) ==
    IF url \in VideoKeys THEN "video"
    ELSE IF url \in PostKeys THEN "post"
    ELSE IF url \in CourtDocumentKeys THEN "court_document"
    ELSE IF url \in ImageKeys THEN "image"
    ELSE IF url \in PoliceReportKeys THEN "police_report"
    ELSE "article"

\* Variant of Classify: src_url is given the token instead of the source.
ClassifyStoresToken(source) ==
    [src_url |-> UrlToken(source), src_type |-> SrcType(UrlToken(source))]

\* The body of the forEach callback: the object s pushed for one source.
Classify(source) ==
    [src_url |-> source, src_type |-> SrcType(UrlToken(source))]

\* The reference of the array that `[]` allocates in the call.
NewArray == "array#1"

\* processSources(sources): `incident_src = []` has no declaration, so the
\* new array is bound to a property of the global object; one object is pushed
\* per source and `return incident_src` returns that same array.
processSources ==
    /\ clsPc = "ready"
    /\ globalObject' = [n \in { "incident_src" } |-> NewArray]
    /\ clsHeap' = [a \in { NewArray } |->
                      [i \in 1..Len(clsSources) |-> Classify(clsSources[i])]]
    /\ clsReturn' = globalObject'["incident_src"]
    /\ clsPc' = "returned"
    /\ UNCHANGED clsSources

InitClassify ==
    /\ clsSources \in InputLists
    /\ globalObject = <<>>
    /\ clsHeap = <<>>
    /\ clsReturn = "none"
    /\ clsPc = "ready"
    /\ AggIdle
    /\ PostIdle
    /\ CsIdle

NextClassify == processSources /\ UNCHANGED <<aggVars, postVars, csVars>>

SpecClassify == InitClassify /\ [][NextClassify]_vars

----------------------------------------------------------------------------
\* POST /createincidents behind validateIncidents.

MaxBody == 2

incident_keys == { "title", "desc", "city", "state", "lat", "long", "date", "tags", "src" }

\* A submitted incident with every key, and one whose `src` is missing.
FullIncident ==
    [title |-> "t", desc |-> "d", city |-> "c", state |-> "s", lat |-> "47",
     long |-> "-122", date |-> "2020-05-31", tags |-> "hard", src |-> "Twitter"]

PartialIncident ==
    [title |-> "t", desc |-> "d", city |-> "c", state |-> "s", lat |-> "47",
     long |-> "-122", date |-> "2020-05-31", tags |-> "hard"]

Bodies == SeqsUpTo({ FullIncident, PartialIncident }, MaxBody)

\* validateIncidents(incident): false when one of incident_keys is not an own
\* property of the argument, or is '', undefined or null.
validateIncidents(incident) ==
    \A k \in incident_keys :
        /\ k \in DOMAIN incident
        /\ incident[k] \notin { "", "undefined", "null" }

\* The request object Express hands to a middleware: the body is one of its
\* properties, the incident's keys are not.
Req(r) == [method |-> "POST", url |-> "/createincidents", body |-> postBody[r]]

\* A client sends POST /createincidents.
SendCreateIncidents(r) ==
    /\ postPc[r] = "none"
    /\ \E body \in Bodies : postBody' = [postBody EXCEPT ![r] = body]
    /\ postPc' = [postPc EXCEPT ![r] = "sent"]
    /\ UNCHANGED <<postValid, postStatus>>

\* The router runs the route's stack: validateIncidents(req, res, next) is
\* called with the request as `incident`, returns a boolean that the router
\* ignores, and calls neither next nor a method of res. The route's handler,
\* that comes after it in the stack, is never entered.
RouteCreateIncidents(r) ==
    /\ postPc[r] = "sent"
    /\ postValid' = [postValid EXCEPT ![r] =
                        IF validateIncidents(Req(r)) THEN "true" ELSE "false"]
    /\ postPc' = [postPc EXCEPT ![r] = "middleware_returned"]
    /\ UNCHANGED <<postBody, postStatus>>

InitPost ==
    /\ PostIdle
    /\ AggIdle
    /\ ClsIdle
    /\ CsIdle

NextPost ==
    /\ \E r \in Requests : SendCreateIncidents(r) \/ RouteCreateIncidents(r)
    /\ UNCHANGED <<aggVars, clsVars, csVars>>

SpecPost == InitPost /\ [][NextPost]_vars

\* The server is not halted: whatever step the program can take is taken.
SpecPostFair == SpecPost /\ WF_vars(NextPost)

----------------------------------------------------------------------------
\* createSource (sourcesModel.js).

MaxCreateSources == 3

SourceUrls == { "https://twitter.com/x", "https://youtu.be/y" }

\* createSource up to its await: forEach calls the async callback for every
\* element, each call runs to its own `await db('sources').insert(source)`
\* and returns a promise that forEach drops; forEach returns undefined and
\* createSource awaits that.
createSource ==
    /\ csPc = "ready"
    /\ csPending' = 1..Len(csSources)
    /\ csPc' = "awaiting"
    /\ UNCHANGED <<csSources, csIncidentID, sourcesTable>>

\* The continuation of `await undefined` is a microtask: it runs before the
\* event loop delivers the result of an insert, and resolves the promise.
createSourceResumes ==
    /\ csPc = "awaiting"
    /\ csPc' = "resolved"
    /\ UNCHANGED <<csSources, csIncidentID, csPending, sourcesTable>>

\* The database completes one of the inserts in flight.
InsertCompletes(i) ==
    /\ csPc = "resolved"
    /\ i \in csPending
    /\ sourcesTable' = Append(sourcesTable,
                              [incident_id |-> csIncidentID, src_url |-> csSources[i]])
    /\ csPending' = csPending \ { i }
    /\ UNCHANGED <<csSources, csIncidentID, csPc>>

\* The database rejects one of the inserts in flight; the rejection ends the
\* callback's own promise, that nothing holds.
InsertRejected(i) ==
    /\ csPc = "resolved"
    /\ i \in csPending
    /\ csPending' = csPending \ { i }
    /\ UNCHANGED <<csSources, csIncidentID, csPc, sourcesTable>>

InitCreate ==
    /\ csSources \in SeqsUpTo(SourceUrls, MaxCreateSources)
    /\ csIncidentID \in 1..MaxIncidentId
    /\ csPc = "ready"
    /\ csPending = {}
    /\ sourcesTable = <<>>
    /\ AggIdle
    /\ ClsIdle
    /\ PostIdle

NextCreate ==
    /\ \/ createSource
       \/ createSourceResumes
       \/ \E i \in 1..MaxCreateSources : InsertCompletes(i) \/ InsertRejected(i)
    /\ UNCHANGED <<aggVars, clsVars, postVars>>

SpecCreate == InitCreate /\ [][NextCreate]_vars

----------------------------------------------------------------------------
\* The specification of GET /showallincidents.
Init ==
    /\ dbIncidents \in InjSeqs(IncidentRows)
    /\ dbTags \in InjSeqs(TagRows)
    /\ dbTagTypes \in TagTypeTables
    /\ dbSources \in { t \in SourceTables : Len(t) + Len(dbTagTypes) <= MaxRows }
    /\ incidents = <<>>
    /\ sources = <<>>
    /\ tofTypes = <<>>
    /\ typeLinks = <<>>
    /\ responseArray = <<>>
    /\ aggStatus = 0
    /\ ClsIdle
    /\ PostIdle
    /\ CsIdle

Next == GetShowAllIncidents /\ UNCHANGED <<clsVars, postVars, csVars>>

Spec == Init /\ [][Next]_vars

----------------------------------------------------------------------------
\* Properties of GET /showallincidents.

Responded == aggStatus = 200

\* The (definition, link) index pairs that join to the incident: the link
\* names the incident and the definition has the link's type_of_force_id.
JoinPairs(incident) ==
    { p \in (1..Len(tofTypes)) \X (1..Len(typeLinks)) :
        /\ typeLinks[p[2]].incident_id = incident.incident_id
        /\ typeLinks[p[2]].type_of_force_id = tofTypes[p[1]].type_of_force_id }

\* Position of pair p among P when definitions are ordered first, links second.
RankDefFirst(p, P) ==
    Cardinality({ q \in P : q[1] < p[1] \/ (q[1] = p[1] /\ q[2] < p[2]) }) + 1

\* Position of pair p among P in the order of the links alone.
RankLinkOnly(p, P) == Cardinality({ q \in P : q[2] < p[2] }) + 1

\* C1 as stated: the labels of `categories` are in the order of the incident's
\* matching tag-links, whatever the order of the tag-definitions is.
C1_CategoriesInLinkOrder ==
    Responded =>
        \A i \in 1..Len(responseArray) :
            LET P == JoinPairs(responseArray[i])
                cats == responseArray[i].categories
            IN /\ Len(cats) = Cardinality(P)
               /\ \A p \in P : cats[RankLinkOnly(p, P)] = tofTypes[p[1]].type_of_force

\* C1 amended: the labels of `categories` are in the order of the
\* tag-definitions collection, and labels of one definition are in the order
\* of its matching tag-links.
C1_CategoriesInDefinitionOrder ==
    Responded =>
        \A i \in 1..Len(responseArray) :
            LET P == JoinPairs(responseArray[i])
                cats == responseArray[i].categories
            IN /\ Len(cats) = Cardinality(P)
               /\ \A p \in P : cats[RankDefFirst(p, P)] = tofTypes[p[1]].type_of_force

\* An incident whose two links name two definitions that the definitions
\* collection holds in the opposite order.
C1_Witness ==
    /\ Responded
    /\ \E i \in 1..Len(responseArray) :
         \E p, q \in JoinPairs(responseArray[i]) : p[1] < q[1] /\ q[2] < p[2]

SourcesOf(incident) ==
    { j \in 1..Len(sources) : sources[j].incident_id = incident.incident_id }

\* C3: one record per incident in incident order; the record's `src` is the
\* subsequence of the sources with the incident's incident_id, whole records
\* in supplied order; a source naming no incident is in no record.
C3_SrcIsMatchingSubsequence ==
    Responded =>
        /\ Len(responseArray) = Len(dbIncidents)
        /\ \A i \in 1..Len(responseArray) :
            LET M == SourcesOf(dbIncidents[i])
                src == responseArray[i].src
            IN /\ responseArray[i].incident_id = dbIncidents[i].incident_id
               /\ responseArray[i].id = dbIncidents[i].id
               /\ Len(src) = Cardinality(M)
               /\ \A j \in M : src[Cardinality({ k \in M : k < j }) + 1] = dbSources[j]
        /\ \A j \in 1..Len(dbSources) :
            (\A i \in 1..Len(dbIncidents) :
                dbIncidents[i].incident_id # dbSources[j].incident_id)
            => \A i \in 1..Len(responseArray) :
                   \A k \in 1..Len(responseArray[i].src) :
                       responseArray[i].src[k] # dbSources[j]

\* Two incidents, one of them with a source, and a source of no incident.
C3_Witness ==
    /\ Responded
    /\ Len(responseArray) >= 1
    /\ \E i \in 1..Len(responseArray) : responseArray[i].src # <<>>
    /\ \E j \in 1..Len(dbSources) :
         \A i \in 1..Len(dbIncidents) :
             dbIncidents[i].incident_id # dbSources[j].incident_id

LinkHasDefinition(l) ==
    \E d \in 1..Len(dbTags) :
        dbTags[d].type_of_force_id = dbTagTypes[l].type_of_force_id

LinkHasIncident(l) ==
    \E i \in 1..Len(dbIncidents) :
        dbIncidents[i].incident_id = dbTagTypes[l].incident_id

Occurrences(seq, x) == Cardinality({ k \in 1..Len(seq) : seq[k] = x })

\* C4: a tag-link without definition or without incident adds nothing to any
\* record's `categories` and the request is still answered; every other
\* tag-link adds the label of its definition to its incident's `categories`:
\* each label occurs once per joining (definition, link) pair, no more.
C4_CategoriesAreTheJoinedLabels ==
    Responded =>
        \A i \in 1..Len(responseArray) :
            LET P == JoinPairs(responseArray[i])
                cats == responseArray[i].categories
            IN /\ Len(cats) = Cardinality(P)
               /\ \A k \in 1..MaxTofId :
                    Occurrences(cats, Label(k)) =
                        Cardinality({ p \in P : tofTypes[p[1]].type_of_force = Label(k) })

\* A link without definition or without incident, next to a joining link.
C4_Witness ==
    /\ Responded
    /\ \E l \in 1..Len(dbTagTypes) : ~LinkHasDefinition(l) \/ ~LinkHasIncident(l)
    /\ \E i \in 1..Len(responseArray) : responseArray[i].categories # <<>>

----------------------------------------------------------------------------
\* Properties of processSources.

Returned == clsPc = "returned"

\* The list the call returned.
Result == clsHeap[clsReturn]

SrcTypes == { "video", "post", "court_document", "image", "police_report", "article" }

Contains(s, sep) == IndexOf(s, sep) # 0

\* The text of s after its first n characters.
Drop(s, n) == SubSeq(s, n + 1, Len(s))

StartsWith(s, pre) == Len(s) >= Len(pre) /\ SubSeq(s, 1, Len(pre)) = pre

\* C5: for every list of strings the call returns a list of the same length
\* whose i-th element has the i-th string, unmodified, as src_url and a
\* src_type of the closed set; the empty string gives src_url "" and article.
C5_ProcessSourcesTotal ==
    Returned =>
        /\ Len(Result) = Len(clsSources)
        /\ \A i \in 1..Len(clsSources) :
            /\ DOMAIN Result[i] = { "src_url", "src_type" }
            /\ Result[i].src_url = clsSources[i]
            /\ Result[i].src_type \in SrcTypes
            /\ clsSources[i] = <<>> => Result[i].src_type = "article"

\* A list of two sources, the empty string and a source that is not an article.
C5_Witness ==
    /\ Returned
    /\ Len(clsSources) = 2
    /\ \E i, j \in 1..2 :
        /\ clsSources[i] = <<>>
        /\ Result[i] = [src_url |-> <<>>, src_type |-> "article"]
        /\ Result[j].src_type # "article"

\* C6 as stated: a source that contains https://www.youtube.com/ anywhere
\* is a video.
C6_YoutubeAnywhereIsVideo ==
    Returned =>
        \A i \in 1..Len(clsSources) :
            Contains(clsSources[i], YoutubeUrl) => Result[i].src_type = "video"

\* C6 amended: a source that contains https://www.youtube.com/ with no
\* https://www. in the text before it is a video.
C6_FirstWwwIsYoutubeIsVideo ==
    Returned =>
        \A i \in 1..Len(clsSources) :
            ( /\ Contains(clsSources[i], YoutubeUrl)
              /\ IndexOf(clsSources[i], HttpsWww) = IndexOf(clsSources[i], YoutubeUrl) )
            => Result[i].src_type = "video"

\* A video source with text both before and after https://www.youtube.com/.
C6_Witness ==
    /\ Returned
    /\ \E i \in 1..Len(clsSources) :
        LET at == IndexOf(clsSources[i], YoutubeUrl)
        IN /\ at > 1
           /\ IndexOf(clsSources[i], HttpsWww) = at
           /\ Len(clsSources[i]) > at + Len(YoutubeUrl) - 1
           /\ Result[i].src_type = "video"

\* C7: a call writes no variable that another call can see, and the list it
\* returns is held by no variable outside the call.
C7_NoSharedState ==
    /\ DOMAIN globalObject = {}
    /\ \A n \in DOMAIN globalObject : globalObject[n] # clsReturn

\* C9 as stated: https://nlg-la.org followed by any path without .com and
\* without .org is a court_document.
C9_NlgLaAnyPath ==
    Returned =>
        \A i \in 1..Len(clsSources) :
            ( /\ StartsWith(clsSources[i], NlgLaUrl)
              /\ ~Contains(Drop(clsSources[i], Len(NlgLaUrl)), DotCom)
              /\ ~Contains(Drop(clsSources[i], Len(NlgLaUrl)), DotOrg) )
            => Result[i].src_type = "court_document"

\* C9 amended: https://nlg-la.org followed by a path of at least two
\* characters without .com, without .org and without https:// is a
\* court_document.
C9_NlgLaLongPath ==
    Returned =>
        \A i \in 1..Len(clsSources) :
            LET path == Drop(clsSources[i], Len(NlgLaUrl))
            IN ( /\ StartsWith(clsSources[i], NlgLaUrl)
                 /\ Len(path) >= 2
                 /\ ~Contains(path, DotCom)
                 /\ ~Contains(path, DotOrg)
                 /\ ~Contains(path, Https) )
               => Result[i].src_type = "court_document"

\* https://nlg-la.org with a path of exactly two characters, classified.
C9_Witness ==
    /\ Returned
    /\ \E i \in 1..Len(clsSources) :
        /\ clsSources[i] = NlgLaUrl \o Slash \o LetterI
        /\ Result[i].src_type = "court_document"

----------------------------------------------------------------------------
\* Properties of POST /createincidents.

\* C8: every request that was sent is eventually answered, with 201 or 500.
C8_EveryPostAnswered ==
    \A r \in Requests : (postPc[r] = "sent") ~> (postStatus[r] \in { 201, 500 })

----------------------------------------------------------------------------
\* Properties of createSource.

\* C10: when the promise of createSource is resolved, the table holds a row
\* { incident_id: incidentID, src_url: u } for every element u of sources.
C10_RowsInsertedWhenResolved ==
    csPc = "resolved" =>
        \A i \in 1..Len(csSources) :
            \E k \in 1..Len(sourcesTable) :
                sourcesTable[k] = [incident_id |-> csIncidentID, src_url |-> csSources[i]]

====
